---- MODULE Spec2Model ----
(***************************************************************************)
(* Model of FreeLLMsTxt: the asynchronous crawler of app.py                *)
(* (AsyncWebCrawler, behind the /generate and /llms.txt routes) and the    *)
(* synchronous crawler of crawler.py (WebCrawler, behind the CLI main.py). *)
(*                                                                         *)
(* A Python str is modelled as a sequence of tokens.  A token stands for a *)
(* fixed run of characters that none of the string tests of the code       *)
(* (startswith, rstrip, replace, the urlparse delimiters) ever splits:     *)
(* "https", ":", "/", "www", ".", "x", "robots.txt", ...                   *)
(***************************************************************************)
EXTENDS Integers, Sequences, FiniteSets, TLC

VARIABLES
    impl,           \* "async" (app.py AsyncWebCrawler) or "sync" (crawler.py WebCrawler)
    entry,          \* caller: "generate", "llms_txt" (app.py routes) or "cli" (main.py)
    base_url,       \* self.base_url
    max_urls,       \* self.max_urls
    pc,             \* position of the crawl coroutine (the next await)
    web,            \* the site: outcome of a GET per URL, fixed once a URL was requested
    fetches,        \* the GET requests issued so far, in order
    logs,           \* self.logs
    sitemap_urls,   \* local sitemap_urls of discover_and_crawl / discover_urls
    probe_idx,      \* index of the next SITEMAP_VARIATIONS pattern to try
    stack,          \* call stack of _crawl_sitemaps: one frame per active call
    all_urls,       \* local all_urls of discover_and_crawl / discover_urls
    urls_to_visit,  \* _crawl_from_homepage: the queue
    visited,        \* _crawl_from_homepage: the visited set
    discovered,     \* _crawl_from_homepage: the output list
    unique_urls,    \* the deduplicated, truncated URL list
    next_i,         \* index of the next URL of unique_urls to extract
    pages,          \* the page records collected so far
    response,       \* what the entry point handed back to its caller
    peer,           \* the locals of a second crawler serving a concurrent request
    fn_args,        \* arguments of the helper under test (helper specifications)
    fn_result       \* <<>> before the call, <<value>> after it

vars == <<impl, entry, base_url, max_urls, pc, web, fetches, logs, sitemap_urls,
          probe_idx, stack, all_urls, urls_to_visit, visited, discovered,
          unique_urls, next_i, pages, response, peer, fn_args, fn_result>>

crawlVars == <<impl, entry, base_url, max_urls, pc, web, fetches, logs, sitemap_urls,
               probe_idx, stack, all_urls, urls_to_visit, visited, discovered,
               unique_urls, next_i, pages, response, peer>>

fnVars == <<fn_args, fn_result>>

----------------------------------------------------------------------------
(* Python str operations on token sequences                                *)

None == "None"

HTTP == <<"http", ":", "/", "/">>

HTTPS == <<"https", ":", "/", "/">>

WWW == <<"www", ".">>

\* str.startswith(prefix)
StartsWith(s, prefix) ==
    /\ Len(s) >= Len(prefix)
    /\ SubSeq(s, 1, Len(prefix)) = prefix

\* str.rstrip(c): every trailing c is removed
RECURSIVE RStrip(_, _)
RStrip(s, c) ==
    IF s # <<>> /\ s[Len(s)] = c THEN RStrip(SubSeq(s, 1, Len(s) - 1), c) ELSE s

\* str.replace(old, ''): every non-overlapping occurrence, scanning left to right
RECURSIVE Remove(_, _)
Remove(s, old) ==
    IF s = <<>> THEN <<>>
    ELSE IF StartsWith(s, old) THEN Remove(SubSeq(s, Len(old) + 1, Len(s)), old)
    ELSE <<Head(s)>> \o Remove(Tail(s), old)

\* the concatenation of a sequence of strings
RECURSIVE Concat(_)
Concat(ss) == IF ss = <<>> THEN <<>> ELSE Head(ss) \o Concat(Tail(ss))

\* str.find(c) + 1: position of the first token of s that is in cs, 0 if none
FindFirst(s, cs) ==
    IF \E i \in 1..Len(s) : s[i] \in cs
    THEN CHOOSE i \in 1..Len(s) : s[i] \in cs /\ \A j \in 1..(i - 1) : s[j] \notin cs
    ELSE 0

\* tokens that cannot be part of a URL scheme
NonSchemeTokens == {":", "/", "#", "?", " "}

\* urllib.parse.urlparse(url).netloc
Netloc(url) ==
    LET i == FindFirst(url, {":"})
        hasScheme == i > 1 /\ \A j \in 1..(i - 1) : url[j] \notin NonSchemeTokens
        rest == IF hasScheme THEN SubSeq(url, i + 1, Len(url)) ELSE url
        after == SubSeq(rest, 3, Len(rest))
        d == FindFirst(after, {"/", "?", "#"})
    IN  IF StartsWith(rest, <<"/", "/">>)
        THEN (IF d = 0 THEN after ELSE SubSeq(after, 1, d - 1))
        ELSE <<>>

----------------------------------------------------------------------------
(* URL Normalizer                                                          *)

\* AsyncWebCrawler._normalize_url, WebCrawler._normalize_url (same body)
normalize_url(url) ==
    LET u == IF StartsWith(url, HTTP) \/ StartsWith(url, HTTPS) THEN url ELSE HTTPS \o url
    IN  RStrip(u, "/")

\* AsyncWebCrawler._is_same_domain
async_is_same_domain(base, url) ==
    LET base_domain == Netloc(base)
        url_domain == Netloc(url)
        base_clean == Remove(base_domain, WWW)
        url_clean == Remove(url_domain, WWW)
    IN  base_clean = url_clean

\* WebCrawler._is_same_domain
sync_is_same_domain(base, url) ==
    LET base_domain == Netloc(base)
        url_domain == Netloc(url)
    IN  base_domain = url_domain

is_same_domain(i, base, url) ==
    IF i = "async" THEN async_is_same_domain(base, url) ELSE sync_is_same_domain(base, url)

----------------------------------------------------------------------------
(* The site being crawled                                                  *)

MaxUrlsBound == 2

MaxLinks == 2

MaxLive == 3

MaxLiveVariation == 2

\* AsyncWebCrawler.SITEMAP_VARIATIONS, WebCrawler.SITEMAP_VARIATIONS
SITEMAP_VARIATIONS ==
    << <<"/", "sitemap.xml">>,
       <<"/", "sitemap_index.xml">>,
       <<"/", "sitemap-index.xml">>,
       <<"/", "sitemaps.xml">>,
       <<"/", "sitemap1.xml">>,
       <<"/", "sitemap", "/", "sitemap.xml">>,
       <<"/", "wp-sitemap.xml">>,
       <<"/", "post-sitemap.xml">>,
       <<"/", "page-sitemap.xml">> >>

\* what the user types as the site to crawl
BaseInputs == { <<"x", "/">> }

RobotsUrl(b) == b \o <<"/", "robots.txt">>

VariationUrl(b, k) == b \o SITEMAP_VARIATIONS[k]

\* sitemaps that robots.txt and sitemap indexes of the site may name
SitemapPool(b) == { b \o <<"/", "s1.xml">>, b \o <<"/", "s2.xml">> }

\* the well-known paths at which the site may serve something
LiveVariationUrls(b) ==
    { VariationUrl(b, k) : k \in 1..Len(SITEMAP_VARIATIONS) } \ 
    { VariationUrl(b, k) : k \in (MaxLiveVariation + 1)..Len(SITEMAP_VARIATIONS) }

\* pages that the sitemaps of the site may name
LeafPool(b) == { b, b \o <<"/", "a">> }

\* the pages of the site: the home page, a page below it, and a page on the
\* www. variant of the host
PagePool(b) == LeafPool(b) \cup { HTTPS \o WWW \o Netloc(b) \o <<"/", "w">> }

\* the sequences over S of length at most n
SeqsUpTo(S, n) == UNION { [1..k -> S] : k \in 0..n }

FailedResponse == [kind |-> "fail"]

EmptyBody == [kind |-> "empty"]

\* robots.txt bodies: lines of tokens
RobotsBodies(b) ==
    { [kind |-> "robots", lines |-> ls] : ls \in
        { << <<"User-agent", ":", " ", "*">> >>,
          << <<"Sitemap", ":", " ">> >>,
          << <<"User-agent", ":", " ", "*">>,
             <<"Sitemap", ":", " ">> \o VariationUrl(b, 1) >>,
          << <<"sitemap", ":">> \o (b \o <<"/", "s1.xml">>),
             <<" ", "SITEMAP", ":", " ">> \o (b \o <<"/", "s2.xml">>) \o <<" ">> >> } }

\* bodies served where a sitemap is expected: a sitemap or sitemap index with
\* at most n entries, a truncated one (the marker is there, the XML does not
\* parse), or some other document (no marker, no entries)
SitemapBodies(b, n) ==
    { [kind |-> "xml", marker |-> TRUE, wellformed |-> TRUE, urls |-> us, nested |-> ns] :
        us \in SeqsUpTo(LeafPool(b), n), ns \in SeqsUpTo(SitemapPool(b), n) }
    \cup { [kind |-> "xml", marker |-> TRUE, wellformed |-> FALSE, urls |-> <<>>, nested |-> <<>>],
           [kind |-> "xml", marker |-> FALSE, wellformed |-> TRUE, urls |-> <<>>, nested |-> <<>>] }

\* what the anchors of the site's pages point to: the home page, a page below
\* it (root-relative), and a page on the www. variant of the host
HrefPool(b) ==
    { b, <<"/", "a">>, HTTPS \o WWW \o Netloc(b) \o <<"/", "w">> }

\* HTML pages: a title, a description, and the href of every anchor (at most
\* n), in document order
HtmlBodies(b, n) ==
    { [kind |-> "html", title |-> <<"T">>, description |-> <<>>, hrefs |-> hs] :
        hs \in SeqsUpTo(HrefPool(b), n) }

\* the number of sitemap entries and anchors of a body
Links(body) ==
    CASE body.kind = "xml" -> Len(body.urls) + Len(body.nested)
      [] body.kind = "html" -> Len(body.hrefs)
      [] OTHER -> 0

\* every response the site may give to a GET of url, with at most n links
Responses(b, url, n) ==
    {FailedResponse} \cup
    (IF url = RobotsUrl(b) THEN {EmptyBody} \cup RobotsBodies(b)
     ELSE IF url \in LiveVariationUrls(b) \cup SitemapPool(b)
          THEN {EmptyBody} \cup { d \in SitemapBodies(b, n) : Links(d) <= n }
     ELSE IF url \in PagePool(b) THEN {EmptyBody} \cup HtmlBodies(b, n)
     ELSE {})

\* the URLs of the site that answered with a body so far
Live(w) == { p \in w : p[2].kind # "fail" }

\* the sitemap entries and anchors seen so far
LinksSeen(w) == Cardinality(UNION { { <<p[1], k>> : k \in 1..Links(p[2]) } : p \in w })

\* the responses a GET of url may get now: the site answers a URL the same way
\* every time, at most MaxLive of its URLs answer at all, and its documents
\* hold at most MaxLinks sitemap entries and anchors between them
Served(w, b, url) ==
    IF \E p \in w : p[1] = url
    THEN { p[2] : p \in { q \in w : q[1] = url } }
    ELSE IF Cardinality(Live(w)) < MaxLive THEN Responses(b, url, MaxLinks - LinksSeen(w))
    ELSE {FailedResponse}

\* "if content:" / "if not html:": None and '' are both falsy
Truthy(body) == body.kind \notin {"fail", "empty"}

----------------------------------------------------------------------------
(* Parsing helpers                                                         *)

\* str.strip() of whitespace
RECURSIVE LStrip(_, _)
LStrip(s, c) == IF s # <<>> /\ Head(s) = c THEN LStrip(Tail(s), c) ELSE s

Strip(s) == LStrip(RStrip(s, " "), " ")

\* str.lower(), token by token
Lower(s) ==
    [ k \in 1..Len(s) |->
        CASE s[k] \in {"Sitemap", "SITEMAP"} -> "sitemap"
          [] s[k] = "User-agent" -> "user-agent"
          [] s[k] = "Disallow" -> "disallow"
          [] OTHER -> s[k] ]

\* line.split(':', 1)[1] of a line that contains a ':'
AfterFirstColon(line) == SubSeq(line, FindFirst(line, {":"}) + 1, Len(line))

\* a slip of the directive test: the line is compared without lower()
RECURSIVE find_sitemaps_case_sensitive(_)
find_sitemaps_case_sensitive(lines) ==
    IF lines = <<>> THEN <<>>
    ELSE LET line == Strip(Head(lines))
             sitemap_url == Strip(AfterFirstColon(line))
         IN  (IF StartsWith(line, <<"sitemap", ":">>) /\ sitemap_url # <<>>
              THEN <<sitemap_url>> ELSE <<>>) \o find_sitemaps_case_sensitive(Tail(lines))

\* AsyncWebCrawler._find_sitemaps_in_robots, RobotsTxtParser.find_sitemaps
RECURSIVE find_sitemaps(_)
find_sitemaps(lines) ==
    IF lines = <<>> THEN <<>>
    ELSE LET line == Strip(Head(lines))
             sitemap_url == Strip(AfterFirstColon(line))
         IN  (IF StartsWith(Lower(line), <<"sitemap", ":">>) /\ sitemap_url # <<>>
              THEN <<sitemap_url>> ELSE <<>>) \o find_sitemaps(Tail(lines))

\* the sitemap directives of a robots.txt response
RobotsSitemaps(body) == IF body.kind = "robots" THEN find_sitemaps(body.lines) ELSE <<>>

\* '<urlset' in content or '<sitemapindex' in content
HasSitemapMarker(body) == body.kind = "xml" /\ body.marker

\* AsyncWebCrawler._parse_sitemap, SitemapParser.parse: <<urls, nested_sitemaps>>;
\* a body that does not parse gives two empty lists
parse_sitemap(body) ==
    IF body.kind = "xml" /\ body.wellformed
    THEN <<body.urls, body.nested>>
    ELSE <<<<>>, <<>>>>

\* is x an element of the list s
InSeq(x, s) == \E k \in 1..Len(s) : s[k] = x

\* list(dict.fromkeys(s)): first occurrences, in order
RECURSIVE DedupeFrom(_, _)
DedupeFrom(s, seen) ==
    IF s = <<>> THEN seen
    ELSE DedupeFrom(Tail(s), IF InSeq(Head(s), seen) THEN seen ELSE Append(seen, Head(s)))

Dedupe(s) == DedupeFrom(s, <<>>)

\* the Python slice s[:n], n of either sign
SliceTo(s, n) ==
    IF n >= 0 THEN SubSeq(s, 1, IF n < Len(s) THEN n ELSE Len(s))
    ELSE SubSeq(s, 1, Len(s) + n)

\* "unique_urls = list(dict.fromkeys(all_urls))[:self.max_urls]"
DedupeAndLimit(found, n) == SliceTo(Dedupe(found), n)

\* position of the last "/" of s, 0 if none
LastSlash(s) ==
    IF \E i \in 1..Len(s) : s[i] = "/"
    THEN CHOOSE i \in 1..Len(s) : s[i] = "/" /\ \A j \in (i + 1)..Len(s) : s[j] # "/"
    ELSE 0

\* urljoin(page_url, href), page_url being scheme://host/path: an empty href
\* gives the page, an absolute one is returned as it is, a fragment is put
\* after the page, a root-relative one replaces the path, any other one
\* replaces the last segment of the path
UrlJoin(page_url, href) ==
    LET i == FindFirst(href, {":"})
        absolute == i > 1 /\ \A j \in 1..(i - 1) : href[j] \notin NonSchemeTokens
        c == FindFirst(page_url, {":"})
        origin == SubSeq(page_url, 1, c) \o <<"/", "/">> \o Netloc(page_url)
        path == SubSeq(page_url, Len(origin) + 1, Len(page_url))
    IN  IF href = <<>> THEN page_url
        ELSE IF absolute THEN href
        ELSE IF Head(href) = "#" THEN page_url \o href
        ELSE IF Head(href) = "/" THEN origin \o href
        ELSE IF path = <<>> THEN origin \o <<"/">> \o href
        ELSE origin \o SubSeq(path, 1, LastSlash(path)) \o href

\* full_url.split('#')[0]
BeforeFragment(u) ==
    LET h == FindFirst(u, {"#"}) IN IF h = 0 THEN u ELSE SubSeq(u, 1, h - 1)

\* href.startswith(('#', 'javascript:', 'mailto:', 'tel:'))
SkippedHref(href) ==
    \/ StartsWith(href, <<"#">>)
    \/ StartsWith(href, <<"javascript", ":">>)
    \/ StartsWith(href, <<"mailto", ":">>)
    \/ StartsWith(href, <<"tel", ":">>)

\* the loop of _extract_links_from_html over the hrefs of the anchors
RECURSIVE ExtractLinksFrom(_, _, _, _, _)
ExtractLinksFrom(i, base, hrefs, page_url, links) ==
    IF hrefs = <<>> THEN links
    ELSE LET href == Head(hrefs)
             full_url == BeforeFragment(UrlJoin(page_url, href))
             keep == /\ ~SkippedHref(href)
                     /\ is_same_domain(i, base, full_url)
                     /\ ~InSeq(full_url, links)
         IN  ExtractLinksFrom(i, base, Tail(hrefs), page_url,
                              IF keep THEN Append(links, full_url) ELSE links)

\* AsyncWebCrawler._extract_links_from_html, WebCrawler._extract_links_from_html
extract_links_from_html(i, base, html, page_url) ==
    IF html.kind = "html" THEN ExtractLinksFrom(i, base, html.hrefs, page_url, <<>>) ELSE <<>>

\* AsyncWebCrawler._extract_page_info, WebCrawler._extract_page_info
\* (content_preview is read by no caller in src/ and is left out)
extract_page_info(i, base, url, html) ==
    [ url |-> url,
      title |-> IF html.kind = "html" THEN html.title ELSE <<>>,
      description |-> IF html.kind = "html" THEN html.description ELSE <<>>,
      links |-> extract_links_from_html(i, base, html, url) ]

----------------------------------------------------------------------------
(* Document Generator: generate_llms_txt (app.py).  The document is the    *)
(* sequence of its lines, joined by "\n" in the code.                      *)

\* len(s) in characters
TokenLen(t) ==
    CASE t \in {"www", " | ", " - ", "...", "- [", "## "} -> 3
      [] t \in {"http", "blog", "docs", "main", "Blog", "Docs", "Main", "Acme", "Home", "Page"} -> 4
      [] t = "https" -> 5
      [] t = "Widgets." -> 8
      [] t \in {"# ", "> ", "](", ": "} -> 2
      [] t = "tttttttttt" -> 10
      [] OTHER -> 1

RECURSIVE CharLen(_)
CharLen(s) == IF s = <<>> THEN 0 ELSE TokenLen(Head(s)) + CharLen(Tail(s))

\* s[:n] (the strings cut by the generator are cut between two tokens)
RECURSIVE TakeChars(_, _)
TakeChars(s, n) ==
    IF s = <<>> \/ TokenLen(Head(s)) > n THEN <<>>
    ELSE <<Head(s)>> \o TakeChars(Tail(s), n - TokenLen(Head(s)))

\* s[:keep] + "..." if len(s) > limit else s
Ellipsize(s, limit, keep) ==
    IF CharLen(s) > limit THEN TakeChars(s, keep) \o <<"...">> ELSE s

\* str.split(sep): the pieces between the occurrences of the token sep
RECURSIVE Split(_, _)
Split(s, sep) ==
    LET i == FindFirst(s, {sep})
    IN  IF i = 0 THEN <<s>>
        ELSE <<SubSeq(s, 1, i - 1)>> \o Split(SubSeq(s, i + 1, Len(s)), sep)

\* str.replace(old, old + ins): ins is put after every occurrence of old
RECURSIVE InsertAfter(_, _, _)
InsertAfter(s, old, ins) ==
    IF s = <<>> THEN <<>>
    ELSE IF StartsWith(s, old)
         THEN old \o ins \o InsertAfter(SubSeq(s, Len(old) + 1, Len(s)), old, ins)
    ELSE <<Head(s)>> \o InsertAfter(Tail(s), old, ins)

\* str.title(), token by token (a token is a word or a separator)
TitleCase(s) ==
    [ k \in 1..Len(s) |->
        CASE s[k] = "blog" -> "Blog"
          [] s[k] = "docs" -> "Docs"
          [] s[k] = "main" -> "Main"
          [] s[k] = "x" -> "X"
          [] s[k] = "www" -> "Www"
          [] OTHER -> s[k] ]

\* .replace('-', ' ').replace('_', ' ')
Spaced(s) == [ k \in 1..Len(s) |-> IF s[k] \in {"-", "_"} THEN " " ELSE s[k] ]

\* urllib.parse.urlparse(url).path of scheme://host/path
UrlPath(url) ==
    LET c == FindFirst(url, {":"})
        start == c + 2 + Len(Netloc(url)) + 1
        rest == SubSeq(url, start, Len(url))
        d == FindFirst(rest, {"?", "#"})
    IN  IF d = 0 THEN rest ELSE SubSeq(rest, 1, d - 1)

\* [p for p in parsed.path.split('/') if p]
PathParts(url) == SelectSeq(Split(UrlPath(url), "/"), LAMBDA part : part # <<>>)

Main == <<"Main">>

\* the category of a page
Category(url) ==
    IF PathParts(url) = <<>> THEN Main ELSE TitleCase(Spaced(PathParts(url)[1]))

\* the tokens of URLs and category names, in the order of Python's str
\* comparison; none is a prefix of another, so that comparing two strings
\* token by token is comparing them character by character
TokenOrder ==
    <<" ", ".", "/", ":", "Blog", "Docs", "False", "Main", "True",
      "blog", "docs", "http", "https", "main", "p", "q", "www", "x">>

TokenRank(t) == CHOOSE k \in 1..Len(TokenOrder) : TokenOrder[k] = t

\* s < t for two str
LexLess(s, t) ==
    \/ Len(s) < Len(t) /\ SubSeq(t, 1, Len(s)) = s
    \/ \E k \in 1..Len(s) :
        /\ k <= Len(t)
        /\ SubSeq(s, 1, k - 1) = SubSeq(t, 1, k - 1)
        /\ s[k] # t[k]
        /\ TokenRank(s[k]) < TokenRank(t[k])

\* a slip of the generator: the items are emitted in the order of insertion
SortedBy_unsorted(items, keys) == items

\* sorted(items, key=...): keys[i] is the key of items[i]; the sort is stable
SortedBy(items, keys) ==
    LET n == Len(items)
        Before(j, i) == LexLess(keys[j], keys[i]) \/ (keys[j] = keys[i] /\ j < i)
        Rank(i) == 1 + Cardinality({ j \in 1..n : Before(j, i) })
    IN  [ r \in 1..n |-> items[CHOOSE i \in 1..n : Rank(i) = r] ]

\* key=lambda x: (x != "Main", x)
CategoryKey(category) == <<IF category # Main THEN "True" ELSE "False">> \o category

\* page.title.split(' | ')[0].split(' - ')[0].strip()
TitlePart(title) == Strip(Split(Split(title, " | ")[1], " - ")[1])

\* the homepage test of the site title loop
IsHomepage(base_url_, url) ==
    \/ RStrip(url, "/") = RStrip(base_url_, "/")
    \/ RStrip(url, "/") = RStrip(InsertAfter(base_url_, <<":", "/", "/">>, WWW), "/")

\* <<site_title, site_description>>: the defaults, replaced by the fields of
\* the first page that passes the homepage test ("break")
SiteHeader(base_url_, pgs) ==
    LET domain == Netloc(base_url_)
        default_title == TitleCase(Split(Remove(domain, WWW), ".")[1])
        default_description == <<"Documentation and resources from ">> \o domain
        hits == SelectSeq(pgs, LAMBDA page : IsHomepage(base_url_, page.url))
    IN  IF hits = <<>> THEN <<default_title, default_description>>
        ELSE << IF hits[1].title # <<>> THEN TitlePart(hits[1].title) ELSE default_title,
                IF hits[1].description # <<>> THEN hits[1].description
                ELSE default_description >>

\* "- [title](url)" and ": desc"
BulletLine(title, page) ==
    <<"- [">> \o title \o <<"](">> \o page.url \o <<")">>
    \o (IF page.description # <<>> THEN <<": ">> \o Ellipsize(page.description, 200, 200)
        ELSE <<>>)

\* the title of a bullet after the truncation to 80 characters
BulletTitle(page) ==
    Ellipsize(IF page.title # <<>> THEN TitlePart(page.title) ELSE page.url, 80, 77)

\* the bullet of a lone Main page
MainBullet(page) == BulletLine(BulletTitle(page), page)

\* the bullet of a page under a heading
SectionBullet(page) ==
    LET title == BulletTitle(page)
        last == Split(page.url, "/")[Len(Split(page.url, "/"))]
    IN  BulletLine(IF title # <<>> THEN title
                   ELSE IF last # <<>> THEN last ELSE <<"Page">>, page)

\* the lines of one category
CategoryLines(category, cat_pages) ==
    IF category = Main /\ Len(cat_pages) = 1 THEN <<MainBullet(cat_pages[1])>>
    ELSE LET sorted == SortedBy(cat_pages, [k \in 1..Len(cat_pages) |-> cat_pages[k].url])
         IN  << <<"## ">> \o category, <<>> >>
             \o [k \in 1..Len(sorted) |-> SectionBullet(sorted[k])]
             \o << <<>> >>

\* generate_llms_txt(base_url, pages) on the day today
generate_llms_txt(base_url_, pgs, today) ==
    LET header == SiteHeader(base_url_, pgs)
        categories == Dedupe([k \in 1..Len(pgs) |-> Category(pgs[k].url)])
        sorted_categories ==
            SortedBy(categories, [k \in 1..Len(categories) |-> CategoryKey(categories[k])])
        body == [k \in 1..Len(sorted_categories) |->
                    CategoryLines(sorted_categories[k],
                                  SelectSeq(pgs, LAMBDA page :
                                      Category(page.url) = sorted_categories[k]))]
    IN  << <<"# ">> \o header[1], <<>>, <<"> ">> \o header[2], <<>> >>
        \o Concat(body)
        \o << <<>>, <<"---">>, <<"Generated by FreeLLMsTxt on ", today>>,
               <<"Source: ">> \o base_url_ >>

----------------------------------------------------------------------------
(* The crawl: discover_and_crawl (app.py), discover_urls + crawl_pages     *)
(* (crawler.py, called by main.py).  One action per GET: the code between  *)
(* two GETs runs without interruption and belongs to the action of the     *)
(* first.  The locals of the crawl are gathered in a record, the helpers   *)
(* below map one such record to the next.                                  *)

Locals ==
    [ pc |-> pc, logs |-> logs, sitemap_urls |-> sitemap_urls, probe_idx |-> probe_idx,
      stack |-> stack, all_urls |-> all_urls, urls_to_visit |-> urls_to_visit,
      visited |-> visited, discovered |-> discovered, unique_urls |-> unique_urls,
      next_i |-> next_i, pages |-> pages, response |-> response ]

Commit(L) ==
    /\ pc' = L.pc
    /\ logs' = L.logs
    /\ sitemap_urls' = L.sitemap_urls
    /\ probe_idx' = L.probe_idx
    /\ stack' = L.stack
    /\ all_urls' = L.all_urls
    /\ urls_to_visit' = L.urls_to_visit
    /\ visited' = L.visited
    /\ discovered' = L.discovered
    /\ unique_urls' = L.unique_urls
    /\ next_i' = L.next_i
    /\ pages' = L.pages
    /\ response' = L.response
    /\ UNCHANGED <<impl, entry, base_url, max_urls, peer, fnVars>>

\* client.get(url) answered with body
Get(url, phase, depth, body) ==
    /\ web' = web \cup {<<url, body>>}
    /\ fetches' = Append(fetches, [url |-> url, phase |-> phase, depth |-> depth,
                                   ok |-> body.kind # "fail"])

Entry(msg, arg) == [msg |-> msg, arg |-> arg]

\* AsyncWebCrawler._log; WebCrawler prints to the console and keeps no log
Log(L, entries) == IF impl = "async" THEN [L EXCEPT !.logs = @ \o entries] ELSE L

\* the except branch of AsyncWebCrawler._fetch
FetchLog(url, body) == IF body.kind = "fail" THEN <<Entry("Failed", url)>> ELSE <<>>

NoResponse == [status |-> 0, success |-> FALSE, document |-> FALSE, error |-> "pending"]

\* what a caller does with no page records
EmptyOutcome(e, urls) ==
    CASE e = "generate" ->
            [status |-> 400, success |-> FALSE, document |-> FALSE,
             error |-> "No pages could be crawled from this URL"]
      [] e = "llms_txt" ->
            [status |-> 404, success |-> FALSE, document |-> FALSE,
             error |-> "Could not crawl the specified URL"]
      [] e = "cli" ->
            [status |-> 0, success |-> FALSE, document |-> FALSE,
             error |-> IF urls = <<>> THEN "No URLs discovered" 
                       ELSE "Could not extract any page information"]

\* a slip of the callers: the empty crawl is rendered like any other
Respond_no_empty_check(e, urls, pgs) ==
    [status |-> IF e = "cli" THEN 0 ELSE 200, success |-> TRUE, document |-> TRUE, error |-> ""]

\* generate, get_llms_txt (app.py) and main (main.py) once the crawl returned
Respond(e, urls, pgs) ==
    IF pgs = <<>> THEN EmptyOutcome(e, urls)
    ELSE [status |-> IF e = "cli" THEN 0 ELSE 200, success |-> TRUE,
          document |-> TRUE, error |-> ""]

\* the end of discover_and_crawl / crawl_pages and the return to the caller
Finish(L) ==
    LET L1 == Log(L, <<Entry("Complete! Crawled", <<Len(L.pages)>>)>>)
    IN  [L1 EXCEPT !.pc = "done", !.response = Respond(entry, L.unique_urls, L.pages)]

\* "Dedupe and limit" and the start of the extraction loop
EnterExtraction(L, found) ==
    LET unique == DedupeAndLimit(found, max_urls)
        L1 == Log([L EXCEPT !.all_urls = found, !.unique_urls = unique,
                            !.next_i = 1, !.pages = <<>>],
                  <<Entry("Discovered unique URLs", <<Len(unique)>>),
                    Entry("Extracting page information", <<>>)>>)
    IN  IF unique = <<>> THEN Finish(L1) ELSE [L1 EXCEPT !.pc = "extract"]

\* "while urls_to_visit and len(discovered) < self.max_urls"
FrontierContinues(queue, found) == queue # <<>> /\ Len(found) < max_urls

\* "if not all_urls": the start of _crawl_from_homepage
EnterFrontier(L) ==
    LET L1 == Log([L EXCEPT !.all_urls = <<>>, !.urls_to_visit = <<base_url>>,
                            !.visited = {}, !.discovered = <<>>],
                  <<Entry("No sitemap found. Crawling from homepage", <<>>)>>)
    IN  IF FrontierContinues(L1.urls_to_visit, L1.discovered)
        THEN [L1 EXCEPT !.pc = "frontier"]
        ELSE EnterExtraction(L1, <<>>)

\* a slip of the fallback: an empty sitemap result goes to extraction as it is
AfterSitemaps_no_fallback(L, found) == EnterExtraction(L, found)

\* "if not all_urls: all_urls = await self._crawl_from_homepage(client)"
AfterSitemaps(L, found) ==
    IF found = <<>> THEN EnterFrontier(L) ELSE EnterExtraction(L, found)

\* "if depth > 3: return []"
DepthCapReached_late(depth) == depth > 4

DepthCapReached(depth) == depth > 3

\* the call _crawl_sitemaps(nested, depth) made by the frame on top of st:
\* a new frame, or no frame at all when the call returns at once
CallCrawlSitemaps(st, urls, depth) ==
    IF DepthCapReached(depth)
    THEN [st EXCEPT ![Len(st)].i = @ + 1]
    ELSE Append(st, [urls |-> urls, i |-> 1, depth |-> depth, acc |-> <<>>])

\* a slip of the return: the caller puts the URLs of the nested sitemaps before
\* its own
RECURSIVE Unwind_nested_first(_)
Unwind_nested_first(st) ==
    LET top == st[Len(st)]
    IN  IF top.i <= Len(top.urls) \/ Len(st) = 1 THEN st
        ELSE Unwind_nested_first([SubSeq(st, 1, Len(st) - 1)
                                    EXCEPT ![Len(st) - 1].acc = top.acc \o @,
                                           ![Len(st) - 1].i = @ + 1])

\* "return all_urls" of every frame whose loop is over, innermost first: the
\* caller extends its own all_urls and goes on with its next sitemap.  The
\* outermost frame is kept so that its result can be read.
RECURSIVE Unwind(_)
Unwind(st) ==
    LET top == st[Len(st)]
    IN  IF top.i <= Len(top.urls) \/ Len(st) = 1 THEN st
        ELSE Unwind([SubSeq(st, 1, Len(st) - 1)
                        EXCEPT ![Len(st) - 1].acc = @ \o top.acc,
                               ![Len(st) - 1].i = @ + 1])

\* "if sitemap_urls: all_urls = await self._crawl_sitemaps(client, sitemap_urls)"
StartSitemaps(L, found) ==
    [L EXCEPT !.sitemap_urls = found, !.pc = "sitemaps",
              !.stack = CallCrawlSitemaps(<<>>, found, 0)]

\* one iteration of the loop of _crawl_sitemaps, in the innermost active call
SitemapStep(L, body) ==
    LET st == L.stack
        top == st[Len(st)]
        sitemap_url == top.urls[top.i]
        L1 == Log(L, <<Entry("Parsing sitemap", sitemap_url)>> \o FetchLog(sitemap_url, body))
        parsed == parse_sitemap(body)
        urls == parsed[1]
        nested_sitemaps == parsed[2]
        st1 == [st EXCEPT ![Len(st)].acc = @ \o urls]
        L2 == IF Truthy(body) /\ nested_sitemaps # <<>>
              THEN Log(L1, <<Entry("Found nested sitemaps", <<Len(nested_sitemaps)>>)>>)
              ELSE L1
        st2 == Unwind(IF ~Truthy(body) THEN [st EXCEPT ![Len(st)].i = @ + 1]
                      ELSE IF nested_sitemaps # <<>>
                           THEN CallCrawlSitemaps(st1, nested_sitemaps, top.depth + 1)
                           ELSE [st1 EXCEPT ![Len(st)].i = @ + 1])
        root == st2[1]
        L3 == Log([L2 EXCEPT !.stack = <<>>, !.all_urls = root.acc],
                  <<Entry("Found URLs from sitemaps", <<Len(root.acc)>>)>>)
    IN  IF Len(st2) = 1 /\ root.i > Len(root.urls)
        THEN AfterSitemaps(L3, root.acc)
        ELSE [L2 EXCEPT !.stack = st2]

\* a slip of the resolution order: the well-known paths are probed whatever
\* robots.txt said
RobotsStep_always_probe(L, body) ==
    LET L1 == Log(L, <<Entry("Starting crawl of", base_url),
                       Entry("Checking robots.txt", <<>>)>>
                     \o FetchLog(RobotsUrl(base_url), body))
    IN  [Log(L1, <<Entry("Trying common sitemap patterns", <<>>)>>)
            EXCEPT !.pc = "probe", !.probe_idx = 1]

\* the robots.txt step of discover_and_crawl / discover_urls
RobotsStep(L, body) ==
    LET L1 == Log(L, <<Entry("Starting crawl of", base_url),
                       Entry("Checking robots.txt", <<>>)>>
                     \o FetchLog(RobotsUrl(base_url), body))
        found == IF Truthy(body) THEN RobotsSitemaps(body) ELSE <<>>
        L2 == IF found # <<>>
              THEN Log(L1, <<Entry("Found sitemaps in robots.txt", <<Len(found)>>)>>)
              ELSE Log(L1, <<Entry("Trying common sitemap patterns", <<>>)>>)
    IN  IF found # <<>> THEN StartSitemaps(L2, found)
        ELSE [L2 EXCEPT !.pc = "probe", !.probe_idx = 1]

\* "if content and ('<urlset' in content or '<sitemapindex' in content)"
Accepted(body) == Truthy(body) /\ HasSitemapMarker(body)

\* a slip of the probing loop: no break, every pattern is tried and every
\* accepted one is kept
ProbeStep_exhaustive(L, body) ==
    LET sitemap_url == VariationUrl(base_url, L.probe_idx)
        L1 == Log(L, FetchLog(sitemap_url, body))
        L2 == IF Accepted(body)
              THEN Log([L1 EXCEPT !.sitemap_urls = Append(@, sitemap_url)],
                       <<Entry("Found sitemap", sitemap_url)>>)
              ELSE L1
    IN  IF L.probe_idx < Len(SITEMAP_VARIATIONS)
        THEN [L2 EXCEPT !.probe_idx = @ + 1]
        ELSE IF L2.sitemap_urls # <<>> THEN StartSitemaps(L2, L2.sitemap_urls)
             ELSE AfterSitemaps(L2, <<>>)

\* one iteration of the loop over SITEMAP_VARIATIONS
ProbeStep(L, body) ==
    LET sitemap_url == VariationUrl(base_url, L.probe_idx)
        L1 == Log(L, FetchLog(sitemap_url, body))
    IN  IF Accepted(body)
        THEN StartSitemaps(Log(L1, <<Entry("Found sitemap", sitemap_url)>>), <<sitemap_url>>)
        ELSE IF L.probe_idx < Len(SITEMAP_VARIATIONS)
             THEN [L1 EXCEPT !.probe_idx = @ + 1]
             ELSE AfterSitemaps(L1, <<>>)

\* a slip of the queueing test: "link not in visited" is left out
RECURSIVE Enqueue_no_visited_test(_, _, _)
Enqueue_no_visited_test(queue, seen, links) ==
    IF links = <<>> THEN queue
    ELSE Enqueue_no_visited_test(IF ~InSeq(Head(links), queue)
                                 THEN Append(queue, Head(links)) ELSE queue,
                                 seen, Tail(links))

\* "for link in links: if link not in visited and link not in urls_to_visit"
RECURSIVE Enqueue(_, _, _)
Enqueue(queue, seen, links) ==
    IF links = <<>> THEN queue
    ELSE Enqueue(IF Head(links) \notin seen /\ ~InSeq(Head(links), queue)
                 THEN Append(queue, Head(links)) ELSE queue,
                 seen, Tail(links))

\* the end of an iteration of the loop of _crawl_from_homepage
FrontierLoop(L) ==
    IF FrontierContinues(L.urls_to_visit, L.discovered) THEN L
    ELSE EnterExtraction(L, L.discovered)

\* an iteration of _crawl_from_homepage that dequeues a visited URL: no GET
FrontierSkip(L) == FrontierLoop([L EXCEPT !.urls_to_visit = Tail(@)])

\* a slip of the failure test: "if not html: continue" is left out
FrontierStep_no_failure_test(L, html) ==
    LET current_url == Head(L.urls_to_visit)
        seen == L.visited \cup {current_url}
        L1 == Log([L EXCEPT !.urls_to_visit = Tail(@), !.visited = seen],
                  <<Entry("Crawling", current_url)>> \o FetchLog(current_url, html))
        links == extract_links_from_html(impl, base_url, html, current_url)
    IN  FrontierLoop([L1 EXCEPT !.discovered = Append(@, current_url),
                                !.urls_to_visit = Enqueue(@, seen, links)])

\* an iteration of _crawl_from_homepage that fetches the dequeued URL
FrontierStep(L, html) ==
    LET current_url == Head(L.urls_to_visit)
        seen == L.visited \cup {current_url}
        L1 == Log([L EXCEPT !.urls_to_visit = Tail(@), !.visited = seen],
                  <<Entry("Crawling", current_url)>> \o FetchLog(current_url, html))
        links == extract_links_from_html(impl, base_url, html, current_url)
    IN  IF ~Truthy(html) THEN FrontierLoop(L1)
        ELSE FrontierLoop([L1 EXCEPT !.discovered = Append(@, current_url),
                                     !.urls_to_visit = Enqueue(@, seen, links)])

\* one iteration of the extraction loop of discover_and_crawl / crawl_pages
ExtractStep(L, html) ==
    LET url == L.unique_urls[L.next_i]
        L1 == Log(L, <<Entry("Fetching", <<L.next_i, Len(L.unique_urls)>> \o url)>>
                     \o FetchLog(url, html))
        L2 == [L1 EXCEPT !.next_i = @ + 1,
                         !.pages = IF Truthy(html)
                                   THEN Append(@, extract_page_info(impl, base_url, url, html))
                                   ELSE @]
    IN  IF L2.next_i > Len(L2.unique_urls) THEN Finish(L2) ELSE L2

\* the locals of a crawler that was just constructed
InitialLocals ==
    [ pc |-> "robots", logs |-> <<>>, sitemap_urls |-> <<>>, probe_idx |-> 0,
      stack |-> <<>>, all_urls |-> <<>>, urls_to_visit |-> <<>>, visited |-> {},
      discovered |-> <<>>, unique_urls |-> <<>>, next_i |-> 0, pages |-> <<>>,
      response |-> NoResponse ]

\* no second crawler
NoPeer == [InitialLocals EXCEPT !.pc = "idle"]

Callers == { <<"async", "generate">>, <<"async", "llms_txt">>, <<"sync", "cli">> }

Init ==
    /\ \E c \in Callers : impl = c[1] /\ entry = c[2]
    /\ \E raw \in BaseInputs : base_url = normalize_url(raw)
    /\ max_urls \in (-1)..MaxUrlsBound
    /\ pc = "robots"
    /\ web = {}
    /\ fetches = <<>>
    /\ logs = <<>>
    /\ sitemap_urls = <<>>
    /\ probe_idx = 0
    /\ stack = <<>>
    /\ all_urls = <<>>
    /\ urls_to_visit = <<>>
    /\ visited = {}
    /\ discovered = <<>>
    /\ unique_urls = <<>>
    /\ next_i = 0
    /\ pages = <<>>
    /\ response = NoResponse
    /\ peer = NoPeer
    /\ fn_args = <<>>
    /\ fn_result = <<>>

CheckRobots ==
    /\ pc = "robots"
    /\ \E body \in Served(web, base_url, RobotsUrl(base_url)) :
        /\ Get(RobotsUrl(base_url), "robots", 0, body)
        /\ Commit(RobotsStep(Locals, body))

TryVariation ==
    /\ pc = "probe"
    /\ \E body \in Served(web, base_url, VariationUrl(base_url, probe_idx)) :
        /\ Get(VariationUrl(base_url, probe_idx), "probe", 0, body)
        /\ Commit(ProbeStep(Locals, body))

CrawlSitemap ==
    /\ pc = "sitemaps"
    /\ LET top == stack[Len(stack)]
       IN  \E body \in Served(web, base_url, top.urls[top.i]) :
            /\ Get(top.urls[top.i], "sitemaps", top.depth, body)
            /\ Commit(SitemapStep(Locals, body))

CrawlFromHomepage ==
    /\ pc = "frontier"
    /\ IF Head(urls_to_visit) \in visited
       THEN /\ Commit(FrontierSkip(Locals))
            /\ UNCHANGED <<web, fetches>>
       ELSE \E html \in Served(web, base_url, Head(urls_to_visit)) :
            /\ Get(Head(urls_to_visit), "frontier", 0, html)
            /\ Commit(FrontierStep(Locals, html))

ExtractPage ==
    /\ pc = "extract"
    /\ \E html \in Served(web, base_url, unique_urls[next_i]) :
        /\ Get(unique_urls[next_i], "extract", 0, html)
        /\ Commit(ExtractStep(Locals, html))

Next == CheckRobots \/ TryVariation \/ CrawlSitemap \/ CrawlFromHomepage \/ ExtractPage

Spec == Init /\ [][Next]_vars

----------------------------------------------------------------------------
(* Two concurrent requests: each is served by a crawler of its own, the    *)
(* event loop switches between the two at every await, that is at every    *)
(* GET.  The second crawler crawls the same site with the same max_urls.   *)

\* the URL a crawler with locals L requests next
StepUrl(L) ==
    CASE L.pc = "robots" -> RobotsUrl(base_url)
      [] L.pc = "probe" -> VariationUrl(base_url, L.probe_idx)
      [] L.pc = "sitemaps" -> L.stack[Len(L.stack)].urls[L.stack[Len(L.stack)].i]
      [] L.pc = "frontier" -> Head(L.urls_to_visit)
      [] L.pc = "extract" -> L.unique_urls[L.next_i]

\* an iteration of _crawl_from_homepage that issues no GET
SkipsFetch(L) == L.pc = "frontier" /\ Head(L.urls_to_visit) \in L.visited

\* the code a crawler with locals L runs from one await to the next, the GET
\* being answered with body
StepOf(L, body) ==
    CASE L.pc = "robots" -> RobotsStep(L, body)
      [] L.pc = "probe" -> ProbeStep(L, body)
      [] L.pc = "sitemaps" -> SitemapStep(L, body)
      [] L.pc = "frontier" -> IF SkipsFetch(L) THEN FrontierSkip(L) ELSE FrontierStep(L, body)
      [] L.pc = "extract" -> ExtractStep(L, body)

\* a slip of the constructor: logs is a list of the class, shared by every
\* crawler (the shared list is the longer of the two views of it)
SelfLogs_of_the_class(mine, others) == IF Len(others) > Len(mine) THEN others ELSE mine

\* "self.logs: list[str] = []" in __init__: every crawler has a list of its own
SelfLogs(mine, others) == mine

MaxLiveTwo == 2

MaxLinksTwo == 1

\* the responses to the GETs of two concurrent requests: those of the site,
\* at most MaxLiveTwo of its URLs answering, with at most MaxLinksTwo sitemap
\* entries and anchors between them, none of them a well-known sitemap path
ServedTwo(w, b, url) ==
    IF \E p \in w : p[1] = url THEN Served(w, b, url)
    ELSE IF Cardinality(Live(w)) < MaxLiveTwo /\ url \notin LiveVariationUrls(b)
         THEN { r \in Served(w, b, url) : LinksSeen(w) + Links(r) <= MaxLinksTwo }
    ELSE {FailedResponse}

InitTwo ==
    /\ impl = "async"
    /\ entry = "generate"
    /\ \E raw \in BaseInputs : base_url = normalize_url(raw)
    /\ max_urls = MaxUrlsBound
    /\ pc = "robots"
    /\ web = {}
    /\ fetches = <<>>
    /\ logs = <<>>
    /\ sitemap_urls = <<>>
    /\ probe_idx = 0
    /\ stack = <<>>
    /\ all_urls = <<>>
    /\ urls_to_visit = <<>>
    /\ visited = {}
    /\ discovered = <<>>
    /\ unique_urls = <<>>
    /\ next_i = 0
    /\ pages = <<>>
    /\ response = NoResponse
    /\ peer = InitialLocals
    /\ fn_args = <<>>
    /\ fn_result = <<>>

\* the first crawler runs up to its next await
CrawlerStep ==
    /\ pc # "done"
    /\ LET L == [Locals EXCEPT !.logs = SelfLogs(logs, peer.logs)]
       IN  IF SkipsFetch(L)
           THEN /\ Commit(StepOf(L, FailedResponse))
                /\ UNCHANGED <<web, fetches>>
           ELSE \E body \in ServedTwo(web, base_url, StepUrl(L)) :
                /\ Get(StepUrl(L), L.pc,
                       IF L.pc = "sitemaps" THEN L.stack[Len(L.stack)].depth ELSE 0, body)
                /\ Commit(StepOf(L, body))

\* the second crawler runs up to its next await
PeerStep ==
    /\ peer.pc # "done"
    /\ LET L == [peer EXCEPT !.logs = SelfLogs(peer.logs, logs)]
       IN  IF SkipsFetch(L)
           THEN /\ peer' = StepOf(L, FailedResponse)
                /\ UNCHANGED web
           ELSE \E body \in ServedTwo(web, base_url, StepUrl(L)) :
                /\ web' = web \cup {<<StepUrl(L), body>>}
                /\ peer' = StepOf(L, body)
    /\ UNCHANGED <<impl, entry, base_url, max_urls, pc, fetches, logs, sitemap_urls,
                   probe_idx, stack, all_urls, urls_to_visit, visited, discovered,
                   unique_urls, next_i, pages, response, fnVars>>

NextTwo == CrawlerStep \/ PeerStep

SpecTwo == InitTwo /\ [][NextTwo]_vars

----------------------------------------------------------------------------
(* The Sitemap Expander on a site whose robots.txt names sitemaps: the     *)
(* crawl up to the return of _crawl_sitemaps, the sitemaps of the site     *)
(* holding more entries than in the full crawl.                            *)

MaxLiveExpand == 3

MaxLinksExpand == 3

\* the responses to the GETs of the expansion: at most MaxLiveExpand URLs of
\* the site answer, with at most MaxLinksExpand sitemap entries between them
ServedExpand(w, b, url) ==
    IF \E p \in w : p[1] = url THEN Served(w, b, url)
    ELSE IF Cardinality(Live(w)) < MaxLiveExpand
         THEN Responses(b, url, MaxLinksExpand - LinksSeen(w))
    ELSE {FailedResponse}

InitExpand ==
    /\ Init
    /\ entry # "llms_txt"
    /\ max_urls = MaxUrlsBound

\* the robots.txt step, robots.txt naming at least one sitemap
ResolveSitemaps ==
    /\ pc = "robots"
    /\ \E body \in ServedExpand(web, base_url, RobotsUrl(base_url)) :
        /\ RobotsSitemaps(body) # <<>>
        /\ Get(RobotsUrl(base_url), "robots", 0, body)
        /\ Commit(RobotsStep(Locals, body))

\* one iteration of the loop of _crawl_sitemaps
ExpandSitemap ==
    /\ pc = "sitemaps"
    /\ LET top == stack[Len(stack)]
       IN  \E body \in ServedExpand(web, base_url, top.urls[top.i]) :
            /\ Get(top.urls[top.i], "sitemaps", top.depth, body)
            /\ Commit(SitemapStep(Locals, body))

NextExpand == ResolveSitemaps \/ ExpandSitemap

SpecExpand == InitExpand /\ [][NextExpand]_vars

----------------------------------------------------------------------------
(* The two crawlers on the same site: AsyncWebCrawler.discover_and_crawl   *)
(* runs first, then WebCrawler.discover_urls and crawl_pages run with the  *)
(* same base and max_urls, the site answering a URL it was already asked   *)
(* for as it did the first time.  peer keeps what the first run returned   *)
(* and the GETs it issued.                                                 *)

InitPair ==
    /\ Init
    /\ impl = "async"
    /\ entry = "generate"

\* crawler = WebCrawler(base_url, max_urls) once discover_and_crawl returned
StartSync ==
    /\ pc = "done"
    /\ impl = "async"
    /\ peer' = Locals @@ [fetches |-> fetches]
    /\ impl' = "sync"
    /\ entry' = "cli"
    /\ pc' = InitialLocals.pc
    /\ fetches' = <<>>
    /\ logs' = InitialLocals.logs
    /\ sitemap_urls' = InitialLocals.sitemap_urls
    /\ probe_idx' = InitialLocals.probe_idx
    /\ stack' = InitialLocals.stack
    /\ all_urls' = InitialLocals.all_urls
    /\ urls_to_visit' = InitialLocals.urls_to_visit
    /\ visited' = InitialLocals.visited
    /\ discovered' = InitialLocals.discovered
    /\ unique_urls' = InitialLocals.unique_urls
    /\ next_i' = InitialLocals.next_i
    /\ pages' = InitialLocals.pages
    /\ response' = InitialLocals.response
    /\ UNCHANGED <<base_url, max_urls, web, fnVars>>

NextPair ==
    \/ CheckRobots
    \/ TryVariation
    \/ CrawlSitemap
    \/ CrawlFromHomepage
    \/ ExtractPage
    \/ StartSync

SpecPair == InitPair /\ [][NextPair]_vars

----------------------------------------------------------------------------
(* Helper specifications: a helper is applied to inputs drawn from bounded *)
(* sets while the crawler stays idle.                                      *)

MaxParts == 3

MaxPrefixParts == 2

\* the strings made of at most n pieces
StringsOf(pieces, n) == { Concat(ss) : ss \in UNION { [1..k -> pieces] : k \in 0..n } }

\* user-supplied origin strings: with and without scheme, a bare scheme, runs of slashes
RawInputs == StringsOf({HTTPS, HTTP, <<"https", ":">>, <<"/">>, <<"x">>}, MaxParts)

\* host names: a name under any stack of www., subdomain and letter prefixes
DomainHosts ==
    { pre \o name : pre \in StringsOf({WWW, <<"sub", ".">>, <<"a">>}, MaxPrefixParts),
                    name \in {<<"x">>, <<"y">>} }

CrawlIdle ==
    /\ impl = None /\ entry = None /\ base_url = <<>> /\ max_urls = 0
    /\ pc = "idle" /\ web = {} /\ fetches = <<>> /\ logs = <<>>
    /\ sitemap_urls = <<>> /\ probe_idx = 0 /\ stack = <<>> /\ all_urls = <<>>
    /\ urls_to_visit = <<>> /\ visited = {} /\ discovered = <<>>
    /\ unique_urls = <<>> /\ next_i = 0 /\ pages = <<>> /\ response = NoResponse
    /\ peer = NoPeer

InitNormalize ==
    /\ CrawlIdle
    /\ fn_args \in RawInputs
    /\ fn_result = <<>>

\* crawler = AsyncWebCrawler(base_url=url, ...): self.base_url = self._normalize_url(base_url)
ApplyNormalize ==
    /\ fn_result = <<>>
    /\ fn_result' = <<normalize_url(fn_args)>>
    /\ UNCHANGED <<fn_args, crawlVars>>

SpecNormalize == InitNormalize /\ [][ApplyNormalize]_vars

InitSameDomain ==
    /\ CrawlIdle
    /\ fn_args \in [ impl : {"async", "sync"},
                     base_scheme : {HTTP, HTTPS},
                     base_host : DomainHosts,
                     url_scheme : {HTTP, HTTPS},
                     url_host : DomainHosts,
                     url_path : {<<>>, <<"/", "a">>} ]
    /\ fn_result = <<>>

\* self._is_same_domain(url) of a crawler whose base_url is the normalized base
ApplySameDomain ==
    /\ fn_result = <<>>
    /\ LET base == normalize_url(fn_args.base_scheme \o fn_args.base_host)
           url == fn_args.url_scheme \o fn_args.url_host \o fn_args.url_path
       IN  fn_result' = <<is_same_domain(fn_args.impl, base, url)>>
    /\ UNCHANGED <<fn_args, crawlVars>>

SpecSameDomain == InitSameDomain /\ [][ApplySameDomain]_vars

MaxRobotsLines == 2

\* lines of a robots.txt: rules, sitemap directives in any letter case and
\* spacing, a directive with no URL, a blank line, a comment, a directive
\* name that is not followed by the colon, a rule that mentions "sitemap:"
RobotsLines ==
    LET s1 == HTTPS \o <<"x", "/", "s1.xml">>
        s2 == HTTPS \o <<"x", "/", "s2.xml">>
    IN  { <<"User-agent", ":", " ", "*">>,
          <<"Sitemap", ":", " ">> \o s1,
          <<" ", "sitemap", ":">> \o s2 \o <<" ">>,
          <<"SITEMAP", ":", " ">>,
          <<>>,
          <<"#", " ", "Sitemap", ":", " ">> \o s1,
          <<"Sitemap", " ", ":", " ">> \o s1,
          <<"Sitemap">>,
          <<"Disallow", ":", " ", "/", "sitemap", ":">> }

InitRobots ==
    /\ CrawlIdle
    /\ fn_args \in SeqsUpTo(RobotsLines, MaxRobotsLines)
    /\ fn_result = <<>>

\* sitemap_urls = self._find_sitemaps_in_robots(robots_content)
ApplyFindSitemaps ==
    /\ fn_result = <<>>
    /\ fn_result' = <<find_sitemaps(fn_args)>>
    /\ UNCHANGED <<fn_args, crawlVars>>

SpecRobots == InitRobots /\ [][ApplyFindSitemaps]_vars

MaxHrefs == 2

\* the sites whose pages are parsed
LinkBases == { HTTPS \o <<"x">>, HTTPS \o <<"www", ".", "x">>, HTTPS \o <<"sub", ".", "x">> }

\* the href of an anchor: a fragment, the three skipped schemes (one of them in
\* upper case), root-relative, relative and absolute links with and without a
\* fragment, links to the www. variant, to another site and to a host that has
\* "www." in the middle, and the empty href
HrefInputs ==
    { <<"#", "top">>,
      <<"javascript", ":", "void(0)">>,
      <<"mailto", ":", "a@x">>,
      <<"MAILTO", ":", "a@x">>,
      <<"tel", ":", "1">>,
      <<"/", "a">>,
      <<"/", "a", "#", "top">>,
      <<"b">>,
      HTTPS \o <<"x", "/", "a">>,
      HTTPS \o <<"www", ".", "x", "/", "a">>,
      HTTP \o <<"sub", ".", "x", "/", "a", "#", "top">>,
      HTTPS \o <<"sub", ".", "www", ".", "x", "/", "a">>,
      HTTPS \o <<"y", "/", "a">>,
      <<>> }

InitExtractLinks ==
    /\ CrawlIdle
    /\ \E i \in {"async", "sync"}, b \in LinkBases, p \in {<<>>, <<"/", "d", "/", "p">>},
          hs \in SeqsUpTo(HrefInputs, MaxHrefs) :
            fn_args = [impl |-> i, base |-> b, page_url |-> b \o p, hrefs |-> hs]
    /\ fn_result = <<>>

\* links = self._extract_links_from_html(html, current_url)
ApplyExtractLinks ==
    /\ fn_result = <<>>
    /\ LET html == [kind |-> "html", title |-> <<>>, description |-> <<>>,
                    hrefs |-> fn_args.hrefs]
       IN  fn_result' = <<extract_links_from_html(fn_args.impl, fn_args.base, html,
                                                  fn_args.page_url)>>
    /\ UNCHANGED <<fn_args, crawlVars>>

SpecExtractLinks == InitExtractLinks /\ [][ApplyExtractLinks]_vars

MaxPages == 3

\* the sites whose documents are generated (crawler.base_url)
RenderBases == { HTTPS \o <<"x">>, HTTPS \o WWW \o <<"x">> }

\* the same URL on the other "www." variant of its host
WwwVariant(url) ==
    LET host == Netloc(url)
        rest == SubSeq(url, Len(HTTPS) + Len(host) + 1, Len(url))
    IN  IF StartsWith(host, WWW) THEN HTTPS \o SubSeq(host, 3, Len(host)) \o rest
        ELSE HTTPS \o WWW \o host \o rest

\* the URLs of the home page: as it is, with a trailing slash, and on the
\* other host variant
HomeUrls(b) == { b, b \o <<"/">>, WwwVariant(b) }

\* the URLs of the pages of three sections
SectionUrls(b) ==
    { b \o <<"/", "blog", "/">>, b \o <<"/", "blog", "/", "p">>,
      b \o <<"/", "docs", "/", "p">>, b \o <<"/", "main">> }

\* a title of 81 characters
LongTitle == [k \in 1..7 |-> "tttttttttt"] \o [k \in 1..11 |-> "t"]

\* a description of 201 characters
LongDescription == [k \in 1..19 |-> "tttttttttt"] \o [k \in 1..11 |-> "t"]

PageRecord(u, t, d) == [url |-> u, title |-> t, description |-> d, links |-> <<>>]

\* page records as _extract_page_info builds them: the title is stripped text,
\* the title and the description may be empty
RenderRecords(b) ==
    { PageRecord(u, f[1], f[2]) :
        u \in HomeUrls(b),
        f \in { << <<>>, <<>> >>,
                << <<"Acme", " | ", "Home">>, <<"Widgets.">> >>,
                << <<"Acme", " ", " - ", "Home", " | ", "x">>, <<>> >>,
                << <<>>, <<"Widgets.">> >> } }
    \cup { PageRecord(u, f[1], f[2]) :
        u \in SectionUrls(b),
        f \in { << <<>>, <<>> >>, << <<"Acme", " | ", "Home">>, <<"Widgets.">> >> } }
    \cup { PageRecord(b \o <<"/", "docs", "/", "p">>, LongTitle, LongDescription) }

\* the pages handed to the generator: at least one (the callers reject an
\* empty crawl), no two with the same url
InitRender ==
    /\ CrawlIdle
    /\ \E b \in RenderBases :
        \E ps \in SeqsUpTo(RenderRecords(b), MaxPages) :
            /\ ps # <<>>
            /\ \A i, j \in 1..Len(ps) : ps[i].url = ps[j].url => i = j
            /\ fn_args = [base |-> b, pages |-> ps, today |-> "2024-01-01"]
    /\ fn_result = <<>>

\* llms_txt = generate_llms_txt(crawler.base_url, pages)
ApplyRender ==
    /\ fn_result = <<>>
    /\ fn_result' = <<generate_llms_txt(fn_args.base, fn_args.pages, fn_args.today)>>
    /\ UNCHANGED <<fn_args, crawlVars>>

SpecRender == InitRender /\ [][ApplyRender]_vars

MaxRaw == 4

\* the URLs a discovery strategy may return
RawUrls == { HTTPS \o <<"x">>, HTTPS \o <<"x", "/", "a">>, HTTPS \o <<"x", "/", "b">> }

\* the list a discovery strategy returned (a sitemap may name a URL more than
\* once) and the max_urls of the crawler
InitDedupe ==
    /\ CrawlIdle
    /\ \E raw \in SeqsUpTo(RawUrls, MaxRaw), n \in (-1)..MaxUrlsBound :
            fn_args = [all_urls |-> raw, max_urls |-> n]
    /\ fn_result = <<>>

\* unique_urls = list(dict.fromkeys(all_urls))[:self.max_urls]
ApplyDedupe ==
    /\ fn_result = <<>>
    /\ fn_result' = <<DedupeAndLimit(fn_args.all_urls, fn_args.max_urls)>>
    /\ UNCHANGED <<fn_args, crawlVars>>

SpecDedupe == InitDedupe /\ [][ApplyDedupe]_vars

----------------------------------------------------------------------------
(* Claims about the URL Normalizer                                         *)

\* C8: normalize is idempotent: for every input string base,
\* normalize(normalize(base)) = normalize(base).
C8_NormalizeIdempotent ==
    fn_result # <<>> => normalize_url(fn_result[1]) = fn_result[1]

\* the two host names differ exactly by one leading "www." label
DifferByLeadingWww(h1, h2) == h1 = WWW \o h2 \/ h2 = WWW \o h1

\* C9: two URLs whose hosts differ only by a leading "www." label are the same
\* domain, in either direction, whatever their schemes and paths.
C9_WwwVariantIsSameDomain ==
    (fn_result # <<>> /\ DifferByLeadingWww(fn_args.base_host, fn_args.url_host))
        => fn_result[1] = TRUE

\* C10: the same-domain check of app.py is false for every pair of hosts that
\* differ in any way other than one side carrying a leading "www." prefix.
C10_OtherHostsAreDistinct ==
    (/\ fn_result # <<>>
     /\ fn_args.impl = "async"
     /\ fn_args.base_host # fn_args.url_host
     /\ ~DifferByLeadingWww(fn_args.base_host, fn_args.url_host))
        => fn_result[1] = FALSE

----------------------------------------------------------------------------
(* Claims about the crawl                                                  *)

\* the response the site gave to url (url was requested)
Resp(url) == (CHOOSE p \in web : p[1] = url)[2]

\* the GETs of one phase, in the order they were issued
PhaseFetches(phase) == SelectSeq(fetches, LAMBDA f : f.phase = phase)

UrlsOf(fs) == [k \in 1..Len(fs) |-> fs[k].url]

PageUrls == [k \in 1..Len(pages) |-> pages[k].url]

NoDuplicates(s) == \A i, j \in 1..Len(s) : s[i] = s[j] => i = j

\* the leaf URLs of the sitemaps fetched so far, in fetch order
RECURSIVE LeavesOf(_)
LeavesOf(fs) ==
    IF fs = <<>> THEN <<>>
    ELSE (IF Truthy(Resp(Head(fs).url)) THEN parse_sitemap(Resp(Head(fs).url))[1] ELSE <<>>)
         \o LeavesOf(Tail(fs))

SitemapLeaves == LeavesOf(PhaseFetches("sitemaps"))

DiscoveryOver == pc \in {"frontier", "extract", "done"}

\* C1: the page records returned by discover are at most maxUrls (none when
\* maxUrls is negative) and no two of them have the same url.
C1_AtMostMaxUrlsDistinctPages ==
    /\ Len(pages) <= (IF max_urls < 0 THEN 0 ELSE max_urls)
    /\ NoDuplicates(PageUrls)

\* the longest list of nested sitemaps among the sitemaps fetched so far
MaxFanout ==
    LET lens == { Len(parse_sitemap(p[2])[2]) : p \in web }
    IN  IF lens = {} THEN 0 ELSE CHOOSE n \in lens : \A m \in lens : m <= n

\* C2: sitemap expansion never goes past depth 3 (no sitemap is fetched at a
\* nesting level above 3, no deeper call is active) and it terminates on every
\* sitemap graph, cyclic ones included: a GET is pending as long as it runs,
\* every step of it issues one, and with r sitemap URLs to start from and at
\* most f nested entries per document it issues at most r(1 + f + f^2 + f^3).
C2_SitemapDepthBoundedAndTerminates ==
    /\ [](/\ \A k \in 1..Len(fetches) : fetches[k].depth <= 3
          /\ \A k \in 1..Len(stack) : stack[k].depth = k - 1
          /\ Len(stack) <= 4
          /\ pc = "sitemaps" =>
                /\ stack # <<>>
                /\ stack[Len(stack)].i \in 1..Len(stack[Len(stack)].urls)
          /\ Len(PhaseFetches("sitemaps")) <=
                Len(sitemap_urls) * (1 + MaxFanout + MaxFanout * MaxFanout
                                       + MaxFanout * MaxFanout * MaxFanout))
    /\ [][pc = "sitemaps" => Len(fetches') = Len(fetches) + 1]_vars

\* a sitemap index that lists itself was followed down to depth 3, and the
\* crawl is over
C2_Witness ==
    /\ pc = "done"
    /\ \E k \in 1..Len(fetches) :
        /\ fetches[k].phase = "sitemaps"
        /\ fetches[k].depth = 3
        /\ InSeq(fetches[k].url, parse_sitemap(Resp(fetches[k].url))[2])

\* C3: in the extraction step every surviving URL is attempted exactly once, in
\* list order, whatever the outcome of the earlier ones, and the returned pages
\* are exactly the records of the URLs whose fetch succeeded, in that order.
C3_PagesAreTheFetchedUrls ==
    LET tried == PhaseFetches("extract")
        succeeded == SelectSeq(tried, LAMBDA f : f.ok)
    IN  /\ UrlsOf(tried) = SubSeq(unique_urls, 1, Len(tried))
        /\ pc = "done" => /\ Len(tried) = Len(unique_urls)
                          /\ PageUrls = UrlsOf(succeeded)

\* C4: a crawl that ends with zero page records is reported as a failed
\* outcome (generate: success false, status 400; /llms.txt: status 404; CLI: an
\* error message, nothing written), never as a document.
C4_EmptyCrawlIsAFailedOutcome ==
    (pc = "done" /\ pages = <<>>) =>
        /\ response.success = FALSE
        /\ response.document = FALSE
        /\ response.error \notin {"", "pending"}
        /\ response.status = (CASE entry = "generate" -> 400
                                [] entry = "llms_txt" -> 404
                                [] entry = "cli" -> 0)

\* URLs were discovered, none could be extracted, and /generate answered
C4_Witness ==
    /\ pc = "done"
    /\ entry = "generate"
    /\ unique_urls # <<>>
    /\ pages = <<>>

\* the sitemap directives of the robots.txt that was fetched
RobotsYield ==
    IF Truthy(Resp(RobotsUrl(base_url))) THEN RobotsSitemaps(Resp(RobotsUrl(base_url)))
    ELSE <<>>

\* C5: the probing loop fetches a well-known sitemap path only in runs where the
\* robots.txt fetch failed or its body yielded zero sitemap directives; when
\* robots.txt yields a sitemap URL, no well-known path is probed.
C5_RobotsFirst ==
    \A k \in 1..Len(fetches) :
        fetches[k].phase = "probe" =>
            /\ fetches[1].url = RobotsUrl(base_url)
            /\ (~fetches[1].ok \/ RobotsYield = <<>>)

\* robots.txt named a sitemap, the sitemaps expanded to nothing, the crawl went
\* on to follow links, and no well-known path was probed
C5_Witness ==
    /\ fetches # <<>>
    /\ RobotsYield # <<>>
    /\ PhaseFetches("frontier") # <<>>
    /\ PhaseFetches("probe") = <<>>

\* C6: the well-known paths are fetched in list order, a failed or non-sitemap
\* candidate is skipped, nothing is fetched after the first accepted candidate,
\* and the result is that single URL, or empty if no candidate is accepted.
C6_GreedyProbing ==
    LET probes == PhaseFetches("probe")
        n == Len(probes)
    IN  /\ \A k \in 1..n :
            /\ probes[k].url = VariationUrl(base_url, k)
            /\ k < n => ~Accepted(Resp(probes[k].url))
        /\ (n > 0 /\ pc # "probe") =>
            IF Accepted(Resp(probes[n].url))
            THEN sitemap_urls = <<probes[n].url>>
            ELSE n = Len(SITEMAP_VARIATIONS) /\ sitemap_urls = <<>>

\* the first candidate answered without being a sitemap, the second was
\* accepted, and probing stopped there
C6_Witness ==
    LET probes == PhaseFetches("probe")
    IN  /\ pc # "probe"
        /\ Len(probes) = 2
        /\ probes[1].ok
        /\ Accepted(Resp(probes[2].url))

\* _crawl_from_homepage was called: its queue was seeded or consumed
FrontierInvoked == urls_to_visit # <<>> \/ visited # {}

\* C7: the link-following crawler runs if and only if the sitemap path produced
\* an empty leaf URL list; when the sitemaps yield a leaf URL, no link-following
\* fetch is made.
C7_FrontierOnlyAsFallback ==
    /\ DiscoveryOver => (FrontierInvoked <=> SitemapLeaves = <<>>)
    /\ PhaseFetches("frontier") # <<>> => SitemapLeaves = <<>>

\* a sitemap was found at a well-known path, it expanded to zero leaves, and
\* the pages came from following links
C7_Witness ==
    /\ pc = "done"
    /\ PhaseFetches("probe") # <<>>
    /\ sitemap_urls # <<>>
    /\ SitemapLeaves = <<>>
    /\ PhaseFetches("frontier") # <<>>
    /\ pages # <<>>

----------------------------------------------------------------------------
(* Claims about the robots.txt parser                                      *)

\* the line, trimmed, starts with "sitemap:" in any letter case
IsSitemapLine(l) == StartsWith(Lower(Strip(l)), <<"sitemap", ":">>)

\* the trimmed text after the first colon of the trimmed line
DirectiveText(l) == Strip(AfterFirstColon(Strip(l)))

TextsOf(ls) == [k \in 1..Len(ls) |-> DirectiveText(ls[k])]

\* C11 as stated: findSitemapsInRobots returns exactly one entry per line that
\* starts (trimmed, in any letter case) with "sitemap:", namely the trimmed text
\* after the first colon of that line, in file order.
C11_OneEntryPerSitemapLine ==
    fn_result # <<>> => fn_result[1] = TextsOf(SelectSeq(fn_args, IsSitemapLine))

\* C11 amended: findSitemapsInRobots returns exactly one entry per line that
\* starts (trimmed, in any letter case) with "sitemap:" and has a non-empty
\* trimmed text after its first colon, namely that text, in file order; every
\* other line contributes nothing.
C11_OneEntryPerNonEmptyDirective ==
    fn_result # <<>> =>
        fn_result[1] = TextsOf(SelectSeq(fn_args,
                            LAMBDA l : IsSitemapLine(l) /\ DirectiveText(l) # <<>>))

\* a body with an upper-case directive and a directive with no URL was parsed
\* and gave one entry
C11_Witness ==
    /\ fn_result # <<>>
    /\ Len(fn_args) = 2
    /\ \E k \in 1..2 : IsSitemapLine(fn_args[k]) /\ DirectiveText(fn_args[k]) = <<>>
    /\ \E k \in 1..2 : /\ IsSitemapLine(fn_args[k])
                          /\ Head(Strip(fn_args[k])) = "Sitemap"
                          /\ DirectiveText(fn_args[k]) # <<>>
    /\ Len(fn_result[1]) = 1

----------------------------------------------------------------------------
(* Claims about the Link Extractor                                         *)

\* a fragment-only, javascript:, mailto: or tel: href
ExcludedHref(h) ==
    /\ h # <<>>
    /\ \/ Head(h) = "#"
       \/ Len(h) >= 2 /\ h[2] = ":" /\ Lower(h)[1] \in {"javascript", "mailto", "tel"}

\* sameDomain of the spec: the hosts are equal or differ by one leading "www."
SameDomainRelation(base, url) ==
    Netloc(base) = Netloc(url) \/ DifferByLeadingWww(Netloc(base), Netloc(url))

\* the positions of the hrefs that are not excluded and resolve to link
SourcesOf(link) ==
    { k \in 1..Len(fn_args.hrefs) :
        /\ ~ExcludedHref(fn_args.hrefs[k])
        /\ BeforeFragment(UrlJoin(fn_args.page_url, fn_args.hrefs[k])) = link }

Least(S) == CHOOSE n \in S : \A m \in S : n <= m

\* what C12 says of a list of links apart from the domain of its elements
ExtractedLinksWellFormed(links) ==
    /\ \A k \in 1..Len(links) : SourcesOf(links[k]) # {} /\ ~InSeq("#", links[k])
    /\ NoDuplicates(links)
    /\ \A i, j \in 1..Len(links) :
            i < j => Least(SourcesOf(links[i])) < Least(SourcesOf(links[j]))

\* C12: extractLinks returns a list in which no element came from a
\* fragment-only, javascript:, mailto: or tel: href, no element contains a "#",
\* every element is in the same domain as the crawl base (hosts equal up to one
\* leading "www."), no element occurs twice, and the elements are ordered by
\* first occurrence in the document.
C12_ExtractedLinks ==
    fn_result # <<>> =>
        /\ ExtractedLinksWellFormed(fn_result[1])
        /\ \A k \in 1..Len(fn_result[1]) : SameDomainRelation(fn_args.base, fn_result[1][k])

----------------------------------------------------------------------------
(* Claims about the Document Generator                                     *)

\* the lines of a document that are not blank
NonBlank(doc) == SelectSeq(doc, LAMBDA l : l # <<>>)

\* the pages whose url is the base or its other "www." variant, in input order
HomeRecords == SelectSeq(fn_args.pages,
                         LAMBDA r : r.url \in {fn_args.base, WwwVariant(fn_args.base)})

\* the same, a trailing slash being ignored
HomeLikeRecords ==
    SelectSeq(fn_args.pages,
              LAMBDA r : RStrip(r.url, "/") \in {fn_args.base, WwwVariant(fn_args.base)})

HostTitle == TitleCase(Split(Remove(Netloc(fn_args.base), WWW), ".")[1])

GenericDescription == <<"Documentation and resources from ">> \o Netloc(fn_args.base)

\* C13: when pages holds a record whose URL equals the base and which has a
\* non-empty title and description, the first line of the document is "# " and
\* the part of that title before the first " | " or " - ", and its second
\* non-blank line is "> " and that description; when no home page record has a
\* title the title is derived from the host name, and when none has a
\* description the description is the generic sentence.
C13_SiteHeaderFromHomepage ==
    fn_result # <<>> =>
        LET doc == fn_result[1]
        IN  /\ \A k \in 1..Len(fn_args.pages) :
                LET r == fn_args.pages[k]
                IN  (r.url = fn_args.base /\ r.title # <<>> /\ r.description # <<>>) =>
                        /\ doc[1] = <<"# ">> \o TitlePart(r.title)
                        /\ NonBlank(doc)[2] = <<"> ">> \o r.description
            /\ (\A k \in 1..Len(HomeLikeRecords) : HomeLikeRecords[k].title = <<>>) =>
                    doc[1] = <<"# ">> \o HostTitle
            /\ (\A k \in 1..Len(HomeLikeRecords) : HomeLikeRecords[k].description = <<>>) =>
                    NonBlank(doc)[2] = <<"> ">> \o GenericDescription

\* C14: when a page whose URL is the base, or the base with "www." added to or
\* removed from the host, has a non-empty title, the site title comes from such
\* a page, also when a home page record with an empty title precedes it.
C14_HomepageOnEitherWwwVariant ==
    fn_result # <<>> =>
        ((\E k \in 1..Len(HomeRecords) : HomeRecords[k].title # <<>>) =>
            \E k \in 1..Len(HomeRecords) :
                /\ HomeRecords[k].title # <<>>
                /\ fn_result[1][1] = <<"# ">> \o TitlePart(HomeRecords[k].title))

IsHeading(l) == l # <<>> /\ Head(l) = "## "

IsBullet(l) == l # <<>> /\ Head(l) = "- ["

\* the link text and the link target of a bullet
BulletText(l) == SubSeq(l, 2, FindFirst(l, {"]("}) - 1)

BulletUrl(l) ==
    LET rest == SubSeq(l, FindFirst(l, {"]("}) + 1, Len(l))
    IN  SubSeq(rest, 1, FindFirst(rest, {")"}) - 1)

\* the positions of the headings of a document, in order
HeadingRows(doc) == SelectSeq([k \in 1..Len(doc) |-> k], LAMBDA k : IsHeading(doc[k]))

\* the link targets of the bullets below the n-th heading, in order
BulletsBelow(doc, n) ==
    LET rows == HeadingRows(doc)
        from == rows[n]
        to == IF n < Len(rows) THEN rows[n + 1] ELSE Len(doc)
        bullets == SelectSeq(SubSeq(doc, from, to), IsBullet)
    IN  [k \in 1..Len(bullets) |-> BulletUrl(bullets[k])]

\* the urls of the pages of a category
UrlsIn(category) ==
    { fn_args.pages[k].url : k \in { j \in 1..Len(fn_args.pages) :
                                        Category(fn_args.pages[j].url) = category } }

\* the categories that get a heading: all but a Main of one page
HeadedCategories ==
    { c \in { Category(fn_args.pages[k].url) : k \in 1..Len(fn_args.pages) } :
        ~(c = Main /\ Cardinality(UrlsIn(c)) = 1) }

FinalPathSegment(url) == Split(UrlPath(url), "/")[Len(Split(UrlPath(url), "/"))]

\* C16: the bullet of every page whose title is empty, a lone Main page
\* included, has the final path segment of the URL as its link text, or "Page"
\* when that segment is empty, and never the URL itself.
C16_EmptyTitleFallsBackToSegment ==
    fn_result # <<>> =>
        \A k \in 1..Len(fn_args.pages) :
            fn_args.pages[k].title = <<>> =>
                \A n \in 1..Len(fn_result[1]) :
                    LET l == fn_result[1][n]
                    IN  (IsBullet(l) /\ BulletUrl(l) = fn_args.pages[k].url) =>
                            /\ BulletText(l) # fn_args.pages[k].url
                            /\ BulletText(l) =
                                    (IF FinalPathSegment(fn_args.pages[k].url) # <<>>
                                     THEN FinalPathSegment(fn_args.pages[k].url)
                                     ELSE <<"Page">>)

----------------------------------------------------------------------------
(* Claims about concurrent invocations                                     *)

\* the locals of a crawler that runs alone from L to its return, the site
\* answering as it did
RECURSIVE RunAlone(_)
RunAlone(L) ==
    IF L.pc = "done" THEN L
    ELSE RunAlone(StepOf(L, IF SkipsFetch(L) THEN FailedResponse ELSE Resp(StepUrl(L))))

\* C17: two crawlers serving concurrent requests, interleaved at every await,
\* share no mutable state: each returns the pages, the log and the response it
\* would return running alone against the same fetch outcomes, so that no
\* entry written by one is in the log of the other.
C17_NoSharedStateAcrossInvocations ==
    /\ pc = "done" =>
            /\ pages = RunAlone(InitialLocals).pages
            /\ logs = RunAlone(InitialLocals).logs
            /\ response = RunAlone(InitialLocals).response
    /\ peer.pc = "done" =>
            /\ peer.pages = RunAlone(InitialLocals).pages
            /\ peer.logs = RunAlone(InitialLocals).logs
            /\ peer.response = RunAlone(InitialLocals).response

\* the first crawler returned its pages while the second one was in the middle
\* of its extraction loop, one page done
C17_Witness ==
    /\ pc = "done"
    /\ pages # <<>>
    /\ peer.pc = "extract"
    /\ peer.pages # <<>>
    /\ Len(peer.logs) < Len(logs)

----------------------------------------------------------------------------
(* Claims about the Frontier Crawler                                       *)

Elems(q) == { q[k] : k \in 1..Len(q) }

FrontierFetches == PhaseFetches("frontier")

C19_FailedFetchIsSkipped ==
    /\ [](/\ \A k \in 1..Len(FrontierFetches) :
                /\ FrontierFetches[k].url \in visited
                /\ ~FrontierFetches[k].ok => ~InSeq(FrontierFetches[k].url, discovered)
          /\ \A k \in 1..Len(discovered) :
                \E j \in 1..Len(FrontierFetches) :
                    FrontierFetches[j].url = discovered[k] /\ FrontierFetches[j].ok)
    /\ [][(/\ pc = "frontier"
            /\ Len(fetches') = Len(fetches) + 1
            /\ ~fetches'[Len(fetches')].ok) =>
                /\ fetches'[Len(fetches')].url = Head(urls_to_visit)
                /\ visited' = visited \cup {Head(urls_to_visit)}
                /\ discovered' = discovered
                /\ urls_to_visit' = Tail(urls_to_visit)
                /\ (urls_to_visit' # <<>> /\ Len(discovered) < max_urls) =>
                        pc' = "frontier"]_vars

\* the second URL of the traversal failed, the third was fetched all the same,
\* and discovered holds the first and the third
C19_Witness ==
    /\ Len(FrontierFetches) = 3
    /\ FrontierFetches[1].ok
    /\ ~FrontierFetches[2].ok
    /\ FrontierFetches[3].ok
    /\ discovered = <<FrontierFetches[1].url, FrontierFetches[3].url>>

\* the traversal of the frontier crawler is over
FrontierOver == FrontierInvoked /\ pc \in {"extract", "done"}

\* C20: the frontier crawler terminates: it fetches no URL twice and every
\* iteration consumes a queued URL; it goes on exactly as long as the queue is
\* not empty and discovered holds fewer than maxUrls; it performs at most
\* maxUrls successful fetches, and no fetch when maxUrls is 0.
C20_FrontierTerminatesWithinCap ==
    /\ [](/\ NoDuplicates(UrlsOf(FrontierFetches))
          /\ pc = "frontier" => (urls_to_visit # <<>> /\ Len(discovered) < max_urls)
          /\ FrontierOver => (urls_to_visit = <<>> \/ Len(discovered) >= max_urls)
          /\ Len(SelectSeq(FrontierFetches, LAMBDA f : f.ok))
                <= (IF max_urls < 0 THEN 0 ELSE max_urls)
          /\ max_urls = 0 => FrontierFetches = <<>>)
    /\ [][pc = "frontier" => Len(urls_to_visit') < Len(urls_to_visit)
                              \/ Len(fetches') = Len(fetches) + 1]_vars

----------------------------------------------------------------------------
(* Claims about the Discovery Orchestrator                                 *)

Min(a, b) == IF a < b THEN a ELSE b

\* the entries of s that occur at no earlier position of s, in order
FirstOccurrences(s) ==
    LET first == SelectSeq([k \in 1..Len(s) |-> k],
                           LAMBDA k : \A j \in 1..(k - 1) : s[j] # s[k])
    IN  [k \in 1..Len(first) |-> s[first[k]]]

\* C21: the surviving URL list is the first maxUrls distinct URLs of the
\* discovered sequence, in first-occurrence order (none when maxUrls is
\* negative): duplicates are removed before the list is cut, so that
\* min(maxUrls, number of distinct URLs) URLs survive.
C21_DedupeBeforeTruncate ==
    fn_result # <<>> =>
        LET distinct == FirstOccurrences(fn_args.all_urls)
            n == IF fn_args.max_urls < 0 THEN 0 ELSE fn_args.max_urls
        IN  /\ fn_result[1] = SubSeq(distinct, 1, Min(n, Len(distinct)))
            /\ Len(fn_result[1]) >= Min(fn_args.max_urls, Len(distinct))

----------------------------------------------------------------------------
(* Claims about the Sitemap Expander                                       *)

\* the leaf URLs of the sitemaps urls in depth-first document order, the site
\* answering as it did: for every sitemap in list order, nothing if its fetch
\* failed or gave no body, else the leaves of the document (none if it does
\* not parse) followed by those of its nested sitemaps, down to depth 3
RECURSIVE DepthFirstLeaves(_, _)
DepthFirstLeaves(urls, depth) ==
    IF urls = <<>> \/ depth > 3 THEN <<>>
    ELSE LET doc == Resp(Head(urls))
         IN  (IF doc.kind = "xml"
              THEN (IF doc.wellformed THEN doc.urls ELSE <<>>)
                   \o DepthFirstLeaves(IF doc.wellformed THEN doc.nested ELSE <<>>, depth + 1)
              ELSE <<>>)
             \o DepthFirstLeaves(Tail(urls), depth)

ExpansionOver == pc \notin {"robots", "probe", "sitemaps"} /\ sitemap_urls # <<>>

\* C22: sitemap expansion returns the leaf URLs in depth-first document
\* order: the leaves of a document first, then those of its nested sitemaps
\* in entry order, all the leaves of an earlier sitemap of the list before
\* those of a later one; a sitemap whose fetch or parse fails contributes
\* nothing and its siblings are expanded all the same.
C22_LeavesInDepthFirstOrder ==
    ExpansionOver => all_urls = DepthFirstLeaves(sitemap_urls, 0)

\* robots.txt named two sitemaps; the first one holds a leaf and nests the
\* second one, whose leaf is another URL: the leaf of the first document, the
\* leaf of the nested one, then the leaf of the second sitemap of the list
C22_Witness ==
    /\ ExpansionOver
    /\ Len(sitemap_urls) = 2
    /\ sitemap_urls[1] # sitemap_urls[2]
    /\ Truthy(Resp(sitemap_urls[1]))
    /\ parse_sitemap(Resp(sitemap_urls[1]))[2] = <<sitemap_urls[2]>>
    /\ Len(parse_sitemap(Resp(sitemap_urls[1]))[1]) = 1
    /\ Len(all_urls) = 3
    /\ all_urls[1] # all_urls[2]
    /\ all_urls[2] = all_urls[3]

----------------------------------------------------------------------------
(* Claims about the diagnostic log                                         *)

\* is s the beginning of t
IsPrefix(s, t) == Len(s) <= Len(t) /\ SubSeq(t, 1, Len(s)) = s

\* the GET f produced no data: the fetch failed, the body was empty, or the
\* body of a sitemap did not parse as XML
NoData(f) ==
    \/ Resp(f.url).kind \in {"fail", "empty"}
    \/ f.phase = "sitemaps" /\ Resp(f.url).kind = "xml" /\ ~Resp(f.url).wellformed

\* the log records that url produced no data
LoggedAsFailed(url) == InSeq(Entry("Failed", url), logs)

\* C23: the log returned by discover (the asynchronous crawler) is
\* append-only, and every URL that was attempted and produced no data (fetch
\* failure, empty body, sitemap body that does not parse) has an entry in it
\* that records the failure.
C23_LogExplainsEverySkippedStep ==
    /\ [](impl = "async" =>
            \A k \in 1..Len(fetches) : NoData(fetches[k]) => LoggedAsFailed(fetches[k].url))
    /\ [][IsPrefix(logs, logs')]_vars

----------------------------------------------------------------------------
(* Claims about the layout of the document                                 *)

\* the input pages whose URL has no path segment: the Main category
PathlessPages == SelectSeq(fn_args.pages, LAMBDA page : PathParts(page.url) = <<>>)

\* the input pages of the category named after the first path segment c
SegmentPages(c) ==
    SelectSeq(fn_args.pages, LAMBDA page : PathParts(page.url) # <<>> /\ Category(page.url) = c)

\* the categories named after a first path segment
SegmentCategories ==
    { Category(fn_args.pages[k].url) :
        k \in { j \in 1..Len(fn_args.pages) : PathParts(fn_args.pages[j].url) # <<>> } }

\* the link targets of the bullets above the first heading, in order
TopLevelBullets(doc) ==
    LET rows == HeadingRows(doc)
        bullets == SelectSeq(SubSeq(doc, 1, IF rows = <<>> THEN Len(doc) ELSE rows[1] - 1),
                             IsBullet)
    IN  [k \in 1..Len(bullets) |-> BulletUrl(bullets[k])]

\* the headings of the document that read "## Main", by rank
MainHeadings(doc) ==
    { n \in 1..Len(HeadingRows(doc)) : Tail(doc[HeadingRows(doc)[n]]) = Main }

\* the link targets of all the bullets of the document, in order
AllBullets(doc) ==
    LET bullets == SelectSeq(doc, IsBullet)
    IN  [k \in 1..Len(bullets) |-> BulletUrl(bullets[k])]

Occurrences(x, s) == Cardinality({ k \in 1..Len(s) : s[k] = x })

\* C24: the document has a "## Main" heading if and only if the Main category
\* (the pages with no path segment) holds two or more pages; a Main of exactly
\* one page is a single bullet above every heading; every other category,
\* whatever its size, is a heading followed by one bullet per page of it.
C24_MainHeadingIffSeveralMainPages ==
    fn_result # <<>> =>
        LET doc == fn_result[1]
            rows == HeadingRows(doc)
        IN  /\ MainHeadings(doc) # {} <=> Len(PathlessPages) >= 2
            /\ TopLevelBullets(doc) =
                    (IF Len(PathlessPages) = 1 THEN <<PathlessPages[1].url>> ELSE <<>>)
            /\ \A c \in SegmentCategories :
                    \E n \in 1..Len(rows) :
                        /\ Tail(doc[rows[n]]) = c
                        /\ Len(BulletsBelow(doc, n)) = Len(SegmentPages(c))
                        /\ \A k \in 1..Len(SegmentPages(c)) :
                                Occurrences(SegmentPages(c)[k].url, BulletsBelow(doc, n)) = 1

\* C25: the document has exactly one bullet per input page record (as many
\* bullets as records, every URL being a link target as many times as it is
\* in the input), and a page is under the Main category (the lone bullet above
\* the headings, or a bullet below "## Main") only if its URL has no path
\* segment.
C25_NoPageLostAndMainIsPathless ==
    fn_result # <<>> =>
        LET doc == fn_result[1]
            urls == [k \in 1..Len(fn_args.pages) |-> fn_args.pages[k].url]
        IN  /\ Len(AllBullets(doc)) = Len(fn_args.pages)
            /\ \A k \in 1..Len(urls) :
                    Occurrences(urls[k], AllBullets(doc)) = Occurrences(urls[k], urls)
            /\ \A k \in 1..Len(urls) :
                    (\/ InSeq(urls[k], TopLevelBullets(doc))
                     \/ \E n \in MainHeadings(doc) : InSeq(urls[k], BulletsBelow(doc, n)))
                        => PathParts(urls[k]) = <<>>

----------------------------------------------------------------------------
(* Claims about the two crawlers                                           *)

\* both crawlers have returned
BothReturned == impl = "sync" /\ pc = "done" /\ peer.pc = "done"

\* C26: the synchronous and the asynchronous crawler are equivalent: run with
\* the same base and maxUrls against the same fetch outcomes, they issue the
\* same sequence of fetches and return the same sequence of page records
\* (urls, titles, descriptions, outbound links).
C26_SyncAndAsyncAreEquivalent ==
    BothReturned =>
        /\ UrlsOf(fetches) = UrlsOf(peer.fetches)
        /\ pages = peer.pages

====
